---- MODULE Spec2Model ----
(***************************************************************************)
(* A model of ag-grid's UserComponentFactory                               *)
(* (packages/ag-grid-community/src/ts/components/framework/                *)
(* userComponentFactory.ts): resolution of the component to use for an     *)
(* extension point (a property name such as cellRenderer), merging of the  *)
(* params handed to it, instantiation, wiring and initialisation.          *)
(*                                                                         *)
(* JavaScript values are tagged records, so that values of different       *)
(* JavaScript types are never equal and can always be compared.            *)
(***************************************************************************)
EXTENDS Integers, Sequences, FiniteSets, TLC

VARIABLES
    framework,   \* which framework layer is installed: decides the optional beans
    pc,          \* "idle" before the call, "returned" once the public method has returned or thrown
    call,        \* the public method called and its arguments
    outcome,     \* what the call returned or threw
    events,      \* the constructor, wrap, wireBean, selector, callback and init invocations, in order
    initPromise, \* the Promise returned by the component's init, when it returned one
    future,      \* the Promise returned by createUserComponent, when it returned one
    heap         \* the params objects by address, where the identity of objects matters

vars == <<framework, pc, call, outcome, events, initPromise, future, heap>>

----------------------------------------------------------------------------
(* Bounds of the model.                                                    *)

\* leaf values of params objects are 1..MaxLeaf
MaxLeaf == 3

----------------------------------------------------------------------------
(* JavaScript values.                                                      *)

\* null and undefined: the code tests them alike (== null, != null, truthiness)
Null == [t |-> "null"]

Str(s) == [t |-> "string", s |-> s]

Bool(b) == [t |-> "boolean", b |-> b]

Num(n) == [t |-> "number", n |-> n]

\* an object literal: a function from its keys to their values
Obj(o) == [t |-> "object", o |-> o]

\* a class that implements IComponent (has getGui)
Class(id) == [t |-> "class", id |-> id]

\* a plain function (a component function, not a class)
Func(id) == [t |-> "function", id |-> id]

\* a framework (Angular, React, ...) component class
FwClass(id) == [t |-> "fwclass", id |-> id]

\* the class agComponentUtils.adaptFunction synthesises around a plain function
Adapted(id) == [t |-> "adapted", id |-> id]

\* a bean or handle of the grid (gridOptions.api, the framework wrapper, ...)
Handle(h) == [t |-> "handle", h |-> h]

\* JavaScript truthiness of the values the model uses
Truthy(v) ==
    CASE v.t = "null" -> FALSE
      [] v.t = "string" -> v.s # ""
      [] v.t = "boolean" -> v.b
      [] v.t = "number" -> v.n # 0
      [] OTHER -> TRUE

EmptyObj == Obj([k \in {} |-> Null])

\* obj[key] for an object literal; a missing key reads as undefined
Get(obj, key) == IF key \in DOMAIN obj.o THEN obj.o[key] ELSE Null

\* typeof v, as far as the code tests it ('function', 'object', 'string', 'boolean')
TypeOf(v) ==
    CASE v.t \in {"class", "function", "fwclass", "adapted", "selector", "paramsfn"} -> "function"
      [] v.t \in {"object", "handle", "null"} -> "object"
      [] OTHER -> v.t

----------------------------------------------------------------------------
(* Enumerations of userComponentFactory.ts.                                *)

ComponentType == {"PLAIN_JAVASCRIPT", "FRAMEWORK"}

ComponentSource == {"DEFAULT", "REGISTERED_BY_NAME", "HARDCODED"}

\* the extension points (property names) the model resolves
ExtensionPoints == {"cellRenderer", "filter"}

----------------------------------------------------------------------------
(* Collaborators whose code is outside the two source files: the registry, *)
(* agComponentUtils, _.mergeDeep and the functions a user configures.      *)

\* The name -> implementation store. The grid's built-ins are plain
\* JavaScript (a class or a plain function) and have provenance DEFAULT;
\* what the user registers has provenance REGISTERED and is a class, a
\* plain function or a framework component.
userComponentRegistry ==
    [agCellRenderer  |-> [component |-> Class("AgCellRenderer"), type |-> "PLAIN_JAVASCRIPT", source |-> "DEFAULT"],
     agFormatter     |-> [component |-> Func("agFormatter"), type |-> "PLAIN_JAVASCRIPT", source |-> "DEFAULT"],
     myRenderer      |-> [component |-> Class("MyRenderer"), type |-> "PLAIN_JAVASCRIPT", source |-> "REGISTERED"],
     myFormatter     |-> [component |-> Func("myFormatter"), type |-> "PLAIN_JAVASCRIPT", source |-> "REGISTERED"],
     myFwRenderer    |-> [component |-> FwClass("MyFwRenderer"), type |-> "FRAMEWORK", source |-> "REGISTERED"]]

\* the names bound in the registry
BoundNames == DOMAIN userComponentRegistry

\* a name nothing is registered under
UnboundName == "noSuchComponent"

\* userComponentRegistry.retrieve(name): the entry, or null when the name is unbound
retrieve(name) ==
    IF name \in BoundNames
    THEN [t |-> "registered"] @@ userComponentRegistry[name]
    ELSE Null

\* agComponentUtils.doesImplementIComponent(candidate)
doesImplementIComponent(candidate) == candidate.t = "class"

\* agComponentUtils.adaptFunction: the descriptor of a synthetic class wrapping the function
adaptFunction(propertyName, hardcodedJsFunction, type, source) ==
    [t |-> "classdef", component |-> Adapted(hardcodedJsFunction.id), type |-> type,
     source |-> source, paramsFromSelector |-> Null]

\* _.mergeDeep(dest, source), as the value dest has afterwards: keys of
\* source are copied into dest, two objects under the same key are merged
\* key by key, anything else of source replaces what dest had
RECURSIVE mergeDeep(_, _)
mergeDeep(dest, source) ==
    IF source.t # "object" THEN dest
    ELSE Obj([k \in DOMAIN dest.o \cup DOMAIN source.o |->
                IF k \notin DOMAIN source.o THEN dest.o[k]
                ELSE IF k \in DOMAIN dest.o /\ dest.o[k].t = "object" /\ source.o[k].t = "object"
                     THEN mergeDeep(dest.o[k], source.o[k])
                     ELSE source.o[k]])

\* a selector function the user configured: it returns `result` whatever the params
Selector(result) == [t |-> "selector", result |-> result]

\* a P+"Params" function the user configured: it returns `ret`, and under
\* the key "seen" the value of key "a" of the params it was invoked with
ParamsFn(ret) == [t |-> "paramsfn", ret |-> ret]

\* calling a configured function value with one argument
Apply(fn, arg) ==
    CASE fn.t = "selector" -> fn.result
      [] fn.t = "paramsfn" ->
            IF arg.t = "object" /\ "a" \in DOMAIN arg.o
            THEN mergeDeep(fn.ret, Obj([seen |-> arg.o["a"]]))
            ELSE fn.ret

----------------------------------------------------------------------------
(* Beans of the factory and the results of its methods.                    *)

\* the optional bean frameworkComponentWrapper: present in the framework versions of the grid
frameworkComponentWrapper ==
    IF framework \in {"angular", "react"} THEN Handle("frameworkComponentWrapper") ELSE Null

\* context.getBean('agGridReact'): present in the React version only
agGridReact == IF framework = "react" THEN Handle("agGridReact") ELSE Null

\* gridOptions.api
gridApi == Handle("gridApi")

\* throw Error(message): the three messages of getComponentClassDef, each naming the property
Error(msg, propertyName) == [t |-> "error", kind |-> "Error", msg |-> msg, prop |-> propertyName]

\* the TypeError of the runtime on reading a property of null or undefined
TypeError(msg) == [t |-> "error", kind |-> "TypeError", msg |-> msg, prop |-> ""]

\* a method returning value, having invoked the selector with each of selectorCalls
Return(value, selectorCalls) ==
    [threw |-> FALSE, value |-> value, error |-> Null, selectorCalls |-> selectorCalls]

\* a method throwing error
Throw(error, selectorCalls) ==
    [threw |-> TRUE, value |-> Null, error |-> error, selectorCalls |-> selectorCalls]

----------------------------------------------------------------------------
(* UserComponentFactory.getComponentClassDef                               *)

\* definitionObject[propertyName + suffix], null for a null definitionObject
Entry(definitionObject, propertyName, suffix) ==
    IF definitionObject # Null THEN Get(definitionObject, propertyName \o suffix) ELSE Null

\* whether the value of definitionObject[propertyName] is classified at all
Classified(componentPropertyValue) ==
    componentPropertyValue # Null /\ componentPropertyValue # Bool(TRUE)

hardcodedNameComponentOf(componentPropertyValue) ==
    IF Classified(componentPropertyValue) /\ TypeOf(componentPropertyValue) = "string"
    THEN componentPropertyValue ELSE Null

HardcodedJsComponentOf(componentPropertyValue) ==
    IF /\ Classified(componentPropertyValue)
       /\ TypeOf(componentPropertyValue) \notin {"string", "boolean"}
       /\ doesImplementIComponent(componentPropertyValue)
    THEN componentPropertyValue ELSE Null

hardcodedJsFunctionOf(componentPropertyValue) ==
    IF /\ Classified(componentPropertyValue)
       /\ TypeOf(componentPropertyValue) \notin {"string", "boolean"}
       /\ ~doesImplementIComponent(componentPropertyValue)
    THEN componentPropertyValue ELSE Null

\* SpecifiedTwice without the test of a name beside a framework component
SpecifiedTwiceNoName(hardcodedNameComponent, HardcodedJsComponent, hardcodedJsFunction, HardcodedFwComponent) ==
    \/ Truthy(HardcodedJsComponent) /\ Truthy(HardcodedFwComponent)
    \/ Truthy(hardcodedJsFunction) /\ Truthy(HardcodedFwComponent)

\* the first validation: a framework component together with another hardcoded form
SpecifiedTwice(hardcodedNameComponent, HardcodedJsComponent, hardcodedJsFunction, HardcodedFwComponent) ==
    \/ Truthy(HardcodedJsComponent) /\ Truthy(HardcodedFwComponent)
    \/ Truthy(hardcodedNameComponent) /\ Truthy(HardcodedFwComponent)
    \/ Truthy(hardcodedJsFunction) /\ Truthy(HardcodedFwComponent)

\* SelectorAndComponent without the test of a name beside a selector
SelectorAndComponentNoName(componentSelectorFunc, hardcodedNameComponent, HardcodedJsComponent, hardcodedJsFunction, HardcodedFwComponent) ==
    /\ Truthy(componentSelectorFunc)
    /\ \/ Truthy(HardcodedJsComponent)
       \/ Truthy(hardcodedJsFunction)
       \/ Truthy(HardcodedFwComponent)

\* the third validation: a selector together with any hardcoded form
SelectorAndComponent(componentSelectorFunc, hardcodedNameComponent, HardcodedJsComponent, hardcodedJsFunction, HardcodedFwComponent) ==
    /\ Truthy(componentSelectorFunc)
    /\ \/ Truthy(hardcodedNameComponent)
       \/ Truthy(HardcodedJsComponent)
       \/ Truthy(hardcodedJsFunction)
       \/ Truthy(HardcodedFwComponent)

\* componentNameToUseOf preferring the default name
componentNameToUseDefaultFirst(selectorResult, hardcodedNameComponent, defaultComponentName) ==
    IF Truthy(defaultComponentName) THEN defaultComponentName
    ELSE IF Truthy(selectorResult) /\ Truthy(Get(selectorResult, "component"))
    THEN Get(selectorResult, "component")
    ELSE hardcodedNameComponent

\* the name looked up in the registry: the selector's, else the hardcoded one, else the default
componentNameToUseOf(selectorResult, hardcodedNameComponent, defaultComponentName) ==
    IF Truthy(selectorResult) /\ Truthy(Get(selectorResult, "component"))
    THEN Get(selectorResult, "component")
    ELSE IF Truthy(hardcodedNameComponent) THEN hardcodedNameComponent
    ELSE defaultComponentName

\* the provenance of a plain JavaScript entry of the registry
\* SourceOfRegistered taking every entry for a registered one
SourceOfRegisteredAlwaysByName(registeredComponent) == "REGISTERED_BY_NAME"

\* the provenance of a plain JavaScript entry of the registry
SourceOfRegistered(registeredComponent) ==
    IF registeredComponent.source = "REGISTERED" THEN "REGISTERED_BY_NAME" ELSE "DEFAULT"

lookupFromRegisteredComponents(propertyName, componentNameOpt) ==
    LET componentName == IF componentNameOpt # Null THEN componentNameOpt ELSE Str(propertyName)
        registeredComponent == retrieve(componentName.s)
    IN  IF registeredComponent = Null THEN Null
        ELSE IF registeredComponent.type = "FRAMEWORK"
        THEN [t |-> "classdef", component |-> registeredComponent.component, type |-> "FRAMEWORK",
              source |-> "REGISTERED_BY_NAME", paramsFromSelector |-> Null]
        ELSE IF doesImplementIComponent(registeredComponent.component)
        THEN [t |-> "classdef", component |-> registeredComponent.component, type |-> "PLAIN_JAVASCRIPT",
              source |-> SourceOfRegistered(registeredComponent), paramsFromSelector |-> Null]
        ELSE adaptFunction(propertyName, registeredComponent.component, registeredComponent.type,
                           SourceOfRegistered(registeredComponent))

\* paramsFromSelectorOf dropping the params of a selector that names no component
paramsFromSelectorOnlyWithComponent(selectorResult) ==
    IF Truthy(selectorResult) /\ Truthy(Get(selectorResult, "component"))
    THEN Get(selectorResult, "params") ELSE Null

\* paramsFromSelector: selectorResult ? selectorResult.params : null
paramsFromSelectorOf(selectorResult) ==
    IF Truthy(selectorResult) THEN Get(selectorResult, "params") ELSE Null

\* the part of getComponentClassDef after the validations: the hardcoded
\* forms in their order, then the selector and the lookup by name
ResolveValidated(propertyName, params, defaultComponentName, hardcodedNameComponent, HardcodedJsComponent, hardcodedJsFunction, HardcodedFwComponent, componentSelectorFunc) ==
    IF Truthy(HardcodedFwComponent)
    THEN Return([t |-> "classdef", component |-> HardcodedFwComponent, type |-> "FRAMEWORK",
                 source |-> "HARDCODED", paramsFromSelector |-> Null], << >>)
    ELSE IF Truthy(HardcodedJsComponent)
    THEN Return([t |-> "classdef", component |-> HardcodedJsComponent, type |-> "PLAIN_JAVASCRIPT",
                 source |-> "HARDCODED", paramsFromSelector |-> Null], << >>)
    ELSE IF Truthy(hardcodedJsFunction)
    THEN Return(adaptFunction(propertyName, hardcodedJsFunction, "PLAIN_JAVASCRIPT", "HARDCODED"), << >>)
    ELSE
    LET invoked == Truthy(componentSelectorFunc)
        selectorCalls == IF invoked THEN <<params>> ELSE << >>
        selectorResult == IF invoked THEN Apply(componentSelectorFunc, params) ELSE Null
        componentNameToUse ==
            componentNameToUseOf(selectorResult, hardcodedNameComponent, defaultComponentName)
    IN  IF ~Truthy(componentNameToUse) THEN Return(Null, selectorCalls)
        ELSE
        LET registeredCompClassDef == lookupFromRegisteredComponents(propertyName, componentNameToUse)
        IN  IF registeredCompClassDef = Null
            THEN Throw(TypeError("Cannot read property 'type' of null"), selectorCalls)
            ELSE Return([t |-> "classdef",
                         component |-> registeredCompClassDef.component,
                         type |-> registeredCompClassDef.type,
                         source |-> registeredCompClassDef.source,
                         paramsFromSelector |-> paramsFromSelectorOf(selectorResult)],
                        selectorCalls)

getComponentClassDef(definitionObject, propertyName, params, defaultComponentName) ==
    LET componentPropertyValue == Entry(definitionObject, propertyName, "")
        hardcodedNameComponent == hardcodedNameComponentOf(componentPropertyValue)
        HardcodedJsComponent == HardcodedJsComponentOf(componentPropertyValue)
        hardcodedJsFunction == hardcodedJsFunctionOf(componentPropertyValue)
        HardcodedFwComponent == Entry(definitionObject, propertyName, "Framework")
        componentSelectorFunc == Entry(definitionObject, propertyName, "Selector")
    IN  IF \* the first validation: a framework component together with another hardcoded form
SpecifiedTwice(hardcodedNameComponent, HardcodedJsComponent, hardcodedJsFunction, HardcodedFwComponent)
        THEN Throw(Error("you are trying to specify twice as a component", propertyName), << >>)
        ELSE IF Truthy(HardcodedFwComponent) /\ ~Truthy(frameworkComponentWrapper)
        THEN Throw(Error("you are specifying a framework component but you are not using a framework version",
                         propertyName), << >>)
        ELSE IF SelectorAndComponent(componentSelectorFunc, hardcodedNameComponent, HardcodedJsComponent,
                                     hardcodedJsFunction, HardcodedFwComponent)
        THEN Throw(Error("you can't specify both, the selector and the component", propertyName), << >>)
        ELSE ResolveValidated(propertyName, params, defaultComponentName, hardcodedNameComponent,
                              HardcodedJsComponent, hardcodedJsFunction, HardcodedFwComponent,
                              componentSelectorFunc)

----------------------------------------------------------------------------
(* UserComponentFactory.createFinalParams                                  *)

\* the holder's P+"Params" entry as merged: a function is invoked with
\* paramsFromGrid, an object is taken as it is, anything else is ignored
UserParamsToMerge(userParams, paramsFromGrid) ==
    IF userParams = Null THEN Null
    ELSE IF TypeOf(userParams) = "function" THEN Apply(userParams, paramsFromGrid)
    ELSE IF TypeOf(userParams) = "object" THEN userParams
    ELSE Null

\* MergeSources merging the selector's params before the holder's
MergeSourcesSelectorFirst(paramsFromGrid, userParamsToMerge, paramsFromSelector) ==
    mergeDeep(mergeDeep(mergeDeep(EmptyObj, paramsFromGrid), paramsFromSelector), userParamsToMerge)

\* the three merges into the fresh object res, in the order of the code
MergeSources(paramsFromGrid, userParamsToMerge, paramsFromSelector) ==
    mergeDeep(mergeDeep(mergeDeep(EmptyObj, paramsFromGrid), userParamsToMerge), paramsFromSelector)

\* finalParams.key = value
SetKey(obj, key, value) ==
    Obj([k \in DOMAIN obj.o \cup {key} |-> IF k = key THEN value ELSE obj.o[k]])

\* InjectApi replacing whatever api the merge gave
InjectApiAlways(res) == SetKey(res, "api", gridApi)

\* if (!res.api) { res.api = this.gridOptions.api; }
InjectApi(res) == IF ~Truthy(Get(res, "api")) THEN SetKey(res, "api", gridApi) ELSE res

createFinalParams(definitionObject, propertyName, paramsFromGrid, paramsFromSelector) ==
    LET userParams == IF Truthy(definitionObject)
                      THEN Get(definitionObject, propertyName \o "Params") ELSE Null
        res == MergeSources(paramsFromGrid, UserParamsToMerge(userParams, paramsFromGrid),
                            paramsFromSelector)
    IN  InjectApi(res)

----------------------------------------------------------------------------
(* Components and their instances.                                         *)

\* an invocation the factory makes: of the selector, a constructor, the
\* framework wrapper, context.wireBean, customInitParamsCb, init, console.error
Ev(e, target, params) == [e |-> e, target |-> target, params |-> params]

\* the object `new component()` or frameworkComponentWrapper.wrap(component, ...) gives
Instance(component, via) == [t |-> "instance", of |-> component, via |-> via]

\* What init of an instance does. "none": the instance has no init method;
\* "void": init returns undefined; "value": init returns a value that is
\* neither null nor a Promise; "promise": init returns a Promise; "throws":
\* init throws. The classes a user writes cover the five; the wrapper of a
\* framework component returns a Promise under React and nothing otherwise.
InitKind(instance) ==
    CASE instance.via = "wrap" -> IF framework = "react" THEN "promise" ELSE "void"
      [] instance.of = Class("NoInit") -> "none"
      [] instance.of = Class("ThrowingInit") -> "throws"
      [] instance.of = Class("ValueInit") -> "value"
      [] instance.of = Class("AsyncInit") -> "promise"
      [] OTHER -> "void"

\* customInitParamsCb(params, component) of the caller: a new object, the params with one more key
ApplyCb(customInitParamsCb, params, component) ==
    mergeDeep(mergeDeep(EmptyObj, params), Obj([custom |-> Num(1)]))

----------------------------------------------------------------------------
(* UserComponentFactory.createComponentInstance                            *)

\* the result of createComponentInstance, with the invocations made on the way
Created(threw, error, value, evs) == [threw |-> threw, error |-> error, value |-> value, events |-> evs]

SelectorEvents(selectorCalls) ==
    [i \in 1..Len(selectorCalls) |-> Ev("selector", Null, selectorCalls[i])]

\* what a missing component does when mandatory: it logs, and no more
MissingMandatory(propertyName, defaultComponentName, evs) ==
    Created(FALSE, Null, Null, Append(evs, Ev("console.error", Null, Null)))

createComponentInstance(holder, propertyName, paramsForSelector, defaultComponentName, mandatory) ==
    LET got == getComponentClassDef(holder, propertyName, paramsForSelector, defaultComponentName)
        evs == SelectorEvents(got.selectorCalls)
        componentToUse == got.value
    IN  IF got.threw THEN Created(TRUE, got.error, Null, evs)
        ELSE IF ~Truthy(componentToUse) \/ ~Truthy(componentToUse.component)
        THEN IF mandatory THEN MissingMandatory(propertyName, defaultComponentName, evs)
             ELSE Created(FALSE, Null, Null, evs)
        ELSE IF componentToUse.type = "PLAIN_JAVASCRIPT"
        THEN Created(FALSE, Null,
                     [componentInstance |-> Instance(componentToUse.component, "new"),
                      paramsFromSelector |-> componentToUse.paramsFromSelector],
                     Append(evs, Ev("new", componentToUse.component, Null)))
        ELSE IF ~Truthy(frameworkComponentWrapper)
        THEN Created(TRUE, TypeError("Cannot read property 'wrap' of undefined"), Null, evs)
        ELSE Created(FALSE, Null,
                     [componentInstance |-> Instance(componentToUse.component, "wrap"),
                      paramsFromSelector |-> componentToUse.paramsFromSelector],
                     Append(evs, Ev("wrap", componentToUse.component, Null)))

----------------------------------------------------------------------------
(* UserComponentFactory.initialiseComponent                                *)

\* InitParams dropping what the callback returns
InitParamsIgnoringCb(component, agGridParams, customInitParamsCb) == agGridParams

\* the params init is called with
InitParams(component, agGridParams, customInitParamsCb) ==
    IF customInitParamsCb = Null THEN agGridParams
    ELSE ApplyCb(customInitParamsCb, agGridParams, component)

\* initialiseComponent wiring the instance only when it has an init, and after it
initialiseComponentWiringAfterInit(component, agGridParams, customInitParamsCb) ==
    IF InitKind(component) = "none" THEN << >>
    ELSE (IF customInitParamsCb = Null THEN << >>
          ELSE <<Ev("customInitParamsCb", component, agGridParams)>>)
         \o <<Ev("init", component, InitParams(component, agGridParams, customInitParamsCb)),
              Ev("wireBean", component, Null)>>

\* the invocations of initialiseComponent, in order
initialiseComponent(component, agGridParams, customInitParamsCb) ==
    <<Ev("wireBean", component, Null)>>
    \o (IF InitKind(component) = "none" THEN << >>
        ELSE (IF customInitParamsCb = Null THEN << >>
              ELSE <<Ev("customInitParamsCb", component, agGridParams)>>)
             \o <<Ev("init", component, InitParams(component, agGridParams, customInitParamsCb))>>)

\* the error an init of the user throws
InitError == [t |-> "error", kind |-> "Error", msg |-> "init failed", prop |-> ""]

\* initialiseComponent does not return: init threw, and nothing catches it
InitThrows(component) == InitKind(component) = "throws"

\* what initialiseComponent returns: nothing, the value init returned, or the Promise init returned
DeferredInit(component) ==
    CASE InitKind(component) = "value" -> Num(1)
      [] InitKind(component) = "promise" -> [t |-> "promise"]
      [] OTHER -> Null

----------------------------------------------------------------------------
(* The inputs of the model.                                                *)

\* the object with `key` left out when its value is undefined
Compact(o) == Obj([k \in {j \in DOMAIN o : o[j] # Null} |-> o[k]])

\* the classes a user hardcodes, one per behaviour of init
UserClasses ==
    {Class("NoInit"), Class("SyncInit"), Class("ValueInit"), Class("AsyncInit"), Class("ThrowingInit")}

\* what a holder may carry under P: nothing, true (the default filter),
\* false, a name (bound, unbound or empty), a class or a plain function
PropertyValues ==
    {Null, Bool(TRUE), Bool(FALSE), Str(""), Str(UnboundName), Func("inlineFn"),
     Str("agCellRenderer"), Str("myRenderer"), Str("myFormatter"), Str("myFwRenderer")}
    \cup UserClasses

\* what a holder may carry under P+"Framework"
FrameworkValues == {Null, FwClass("HardcodedFw")}

\* the params a selector supplies
SelectorParams == Obj([a |-> Num(3)])

\* what a selector may return
SelectorResults ==
    {Null}
    \cup {Compact([component |-> c, params |-> p]) :
            c \in {Null, Str(""), Str("myFormatter"), Str("myFwRenderer"), Str(UnboundName)},
            p \in {Null, SelectorParams}}

\* what a holder may carry under P+"Selector"
SelectorValues == {Null} \cup {Selector(r) : r \in SelectorResults}

\* what a holder may carry under P+"Params": nothing, an object or a function
ParamsValues == {Null, Obj([b |-> Obj([y |-> Num(2)])]), ParamsFn(Obj([a |-> Num(2)]))}

\* the holder carrying the four entries of extension point P
Holder(P, value, fw, selector, params) ==
    Compact((P :> value) @@ ((P \o "Framework") :> fw)
            @@ ((P \o "Selector") :> selector) @@ ((P \o "Params") :> params))

\* gridOptions, the process-wide configuration: it configures cellRenderer and not filter
gridOptions ==
    Obj([cellRenderer |-> Str("myRenderer"),
         cellRendererParams |-> Obj([b |-> Obj([y |-> Num(2)])])])

\* the holders that configure extension point P in every way the model knows
HoldersOf(P) ==
    {Holder(P, v, f, s, p) :
        v \in PropertyValues, f \in FrameworkValues, s \in SelectorValues, p \in ParamsValues}

\* a few holders that configure extension point P
SomeHoldersOf(P) ==
    {Holder(P, v, f, Null, Null) : v \in {Bool(TRUE), Str("myRenderer")}, f \in FrameworkValues}

\* the definitionObject argument of a call for propertyName: none, or a
\* holder that configures propertyName or another extension point
DefinitionObjects(propertyName) ==
    {Null}
    \cup (IF propertyName = "cellRenderer" THEN HoldersOf("cellRenderer") ELSE SomeHoldersOf(propertyName))
    \cup UNION {SomeHoldersOf(P) : P \in ExtensionPoints \ {propertyName}}

\* the params the grid passes
GridParams == {Null, Obj([a |-> Num(1), b |-> Obj([x |-> Num(1)])])}

\* the defaultComponentName argument
DefaultNames ==
    {Null, Str(""), Str("agCellRenderer"), Str("agFormatter"), Str("myFwRenderer"),
     Str("myRenderer"), Str(UnboundName)}

\* the customInitParamsCb argument
Callbacks == {Null, [t |-> "callback"]}

----------------------------------------------------------------------------
(* The state machine: one call of a public method, then the completion of  *)
(* a deferred init.                                                        *)

\* a Promise the factory returns: not created, pending or resolved with a
\* value; adapter is what a Promise made by map resolves with
NoPromise == [status |-> "none", value |-> Null, adapter |-> Null]

\* the Promise an init returned: whether it was resolved already when init
\* returned it, or is resolved later
InitPromiseOf(deferredInit, alreadyDone) ==
    IF deferredInit.t = "promise"
    THEN [status |-> IF alreadyDone THEN "resolved" ELSE "pending", afterReturn |-> FALSE]
    ELSE [status |-> "none", afterReturn |-> FALSE]

\* no object is held by address
NoHeap == [cells |-> << >>, initial |-> << >>]

\* a call of a public method with its arguments
Call(op, definitionObject, propertyName, params, defaultComponentName, mandatory, customInitParamsCb) ==
    [op |-> op, definitionObject |-> definitionObject, propertyName |-> propertyName,
     params |-> params, defaultComponentName |-> defaultComponentName,
     mandatory |-> mandatory, customInitParamsCb |-> customInitParamsCb,
     paramsFromSelector |-> Null]

\* what the call did: it returned value or threw error
Outcome(threw, value, error) == [threw |-> threw, value |-> value, error |-> error]

\* the two beans createUserComponent adds to the merged params (AG-1574, AG-1716)
WithBeans(finalParams) ==
    SetKey(SetKey(finalParams, "agGridReact",
                  IF Truthy(agGridReact) THEN Handle("cloneOfAgGridReact") ELSE EmptyObj),
           "frameworkComponentWrapper",
           IF Truthy(frameworkComponentWrapper) THEN frameworkComponentWrapper ELSE EmptyObj)

\* HolderOrGridOptions without the fallback to gridOptions
HolderOrGridOptionsNever(definitionObject) == definitionObject

\* the definitionObject createUserComponent works with
HolderOrGridOptions(definitionObject) ==
    IF ~Truthy(definitionObject) THEN gridOptions ELSE definitionObject

\* FutureOf not waiting for the Promise of init
FutureOfAlwaysResolved(componentInstance, deferredInit, alreadyDone) ==
    [status |-> "resolved", value |-> componentInstance, adapter |-> Null]

\* the Promise createUserComponent returns for an init that returned nothing
\* (resolved) or a Promise (mapped to the instance: resolved once that one is)
FutureOf(componentInstance, deferredInit, alreadyDone) ==
    IF deferredInit = Null
    THEN [status |-> "resolved", value |-> componentInstance, adapter |-> Null]
    ELSE IF alreadyDone
    THEN [status |-> "resolved", value |-> componentInstance, adapter |-> componentInstance]
    ELSE [status |-> "pending", value |-> Null, adapter |-> componentInstance]

Init ==
    /\ framework \in {"none", "angular", "react"}
    /\ pc = "idle"
    /\ call = Call("none", Null, "", Null, Null, FALSE, Null)
    /\ outcome = Outcome(FALSE, Null, Null)
    /\ events = << >>
    /\ initPromise = InitPromiseOf(Null, FALSE)
    /\ future = NoPromise
    /\ heap = NoHeap

\* getComponentClassDef(definitionObject, propertyName, params, defaultComponentName)
GetComponentClassDef ==
    /\ pc = "idle"
    /\ \E propertyName \in ExtensionPoints, params \in GridParams, defaultComponentName \in DefaultNames :
       \E definitionObject \in DefinitionObjects(propertyName) :
         LET got == getComponentClassDef(definitionObject, propertyName, params, defaultComponentName)
         IN  /\ call' = Call("getComponentClassDef", definitionObject, propertyName, params,
                             defaultComponentName, FALSE, Null)
             /\ outcome' = Outcome(got.threw, got.value, got.error)
             /\ events' = SelectorEvents(got.selectorCalls)
    /\ pc' = "returned"
    /\ UNCHANGED <<framework, initPromise, future, heap>>

\* createUserComponent(definitionObject, paramsFromGrid, propertyName,
\*                     defaultComponentName, mandatory, customInitParamsCb)
CreateUserComponent ==
    /\ pc = "idle"
    /\ \E propertyName \in ExtensionPoints, paramsFromGrid \in GridParams,
          defaultComponentName \in DefaultNames, mandatory \in BOOLEAN,
          customInitParamsCb \in Callbacks, alreadyDone \in BOOLEAN :
       \E definitionObject \in DefinitionObjects(propertyName) :
       \E holder \in {HolderOrGridOptions(definitionObject)} :
       \E componentAndParams \in
                {createComponentInstance(holder, propertyName, paramsFromGrid,
                                        defaultComponentName, mandatory)} :
             /\ call' = Call("createUserComponent", definitionObject, propertyName, paramsFromGrid,
                             defaultComponentName, mandatory, customInitParamsCb)
             /\ IF componentAndParams.threw
                THEN /\ ~alreadyDone
                     /\ outcome' = Outcome(TRUE, Null, componentAndParams.error)
                     /\ events' = componentAndParams.events
                     /\ initPromise' = InitPromiseOf(Null, FALSE)
                     /\ future' = NoPromise
                ELSE IF componentAndParams.value = Null
                THEN /\ ~alreadyDone
                     /\ outcome' = Outcome(FALSE, Null, Null)
                     /\ events' = componentAndParams.events
                     /\ initPromise' = InitPromiseOf(Null, FALSE)
                     /\ future' = NoPromise
                ELSE
                LET componentInstance == componentAndParams.value.componentInstance
                    finalParams ==
                        WithBeans(createFinalParams(holder, propertyName, paramsFromGrid,
                                                    componentAndParams.value.paramsFromSelector))
                    deferredInit == DeferredInit(componentInstance)
                IN  /\ alreadyDone => deferredInit.t = "promise"
                    /\ events' = componentAndParams.events
                                 \o initialiseComponent(componentInstance, finalParams, customInitParamsCb)
                    /\ initPromise' = InitPromiseOf(deferredInit, alreadyDone)
                    /\ IF InitThrows(componentInstance)
                       THEN /\ outcome' = Outcome(TRUE, Null, InitError)
                            /\ future' = NoPromise
                       ELSE IF deferredInit = Null \/ deferredInit.t = "promise"
                       THEN /\ outcome' = Outcome(FALSE, [t |-> "promise"], Null)
                            /\ future' = FutureOf(componentInstance, deferredInit, alreadyDone)
                       ELSE /\ outcome' = Outcome(TRUE, Null, TypeError("asPromise.map is not a function"))
                            /\ future' = NoPromise
    /\ pc' = "returned"
    /\ UNCHANGED <<framework, heap>>

\* createUserComponentFromConcreteClass(clazz, agGridParams, customInitParamsCb)
CreateUserComponentFromConcreteClass ==
    /\ pc = "idle"
    /\ \E clazz \in UserClasses, agGridParams \in GridParams,
          customInitParamsCb \in Callbacks, alreadyDone \in BOOLEAN :
         LET internalComponent == Instance(clazz, "new")
             deferredInit == DeferredInit(internalComponent)
         IN  /\ alreadyDone => deferredInit.t = "promise"
             /\ call' = Call("createUserComponentFromConcreteClass", clazz, "", agGridParams,
                             Null, FALSE, customInitParamsCb)
             /\ events' = <<Ev("new", clazz, Null)>>
                          \o initialiseComponent(internalComponent, agGridParams, customInitParamsCb)
             /\ initPromise' = InitPromiseOf(deferredInit, alreadyDone)
             /\ outcome' = IF InitThrows(internalComponent)
                           THEN Outcome(TRUE, Null, InitError)
                           ELSE Outcome(FALSE, internalComponent, Null)
    /\ pc' = "returned"
    /\ future' = NoPromise
    /\ UNCHANGED <<framework, heap>>

\* the Promise an init returned is resolved (the framework has rendered):
\* the Promise mapped from it resolves in the same step, with the instance
DeferredInitCompletes ==
    /\ pc = "returned"
    /\ initPromise.status = "pending"
    /\ initPromise' = [status |-> "resolved", afterReturn |-> TRUE]
    /\ future' = IF future.status = "pending"
                 THEN [future EXCEPT !.status = "resolved", !.value = future.adapter]
                 ELSE future
    /\ UNCHANGED <<framework, pc, call, outcome, events, heap>>

Next ==
    \/ GetComponentClassDef
    \/ CreateUserComponent
    \/ CreateUserComponentFromConcreteClass
    \/ DeferredInitCompletes

Spec == Init /\ [][Next]_vars

----------------------------------------------------------------------------
(* createFinalParams on its own: the inputs are drawn first, then merged.  *)

\* the objects nested under key b: any of the keys x and y, with the leaf value v
InnerObjects(v) == {Compact([x |-> px, y |-> py]) : px \in {Null, Num(v)}, py \in {Null, Num(v)}}

\* params objects whose leaves have the value v: key a is a leaf, key b a
\* leaf or a nested object, key api a handle, a falsy value or missing
ParamObjects(v, apis) ==
    {Compact([a |-> pa, b |-> pb, api |-> papi]) :
        pa \in {Null, Num(v)}, pb \in {Null, Num(v)} \cup InnerObjects(v), papi \in apis}

\* the paramsFromGrid of createFinalParams
MergeGridParams ==
    {Null} \cup UNION {ParamObjects(v, {Null, Num(0), Handle("callerApi")}) : v \in 1..MaxLeaf}

\* the holder's P+"Params" entry: nothing, an object, a function, or a value of another type
MergeUserParams ==
    {Null, Str("notParams")}
    \cup UNION {ParamObjects(v, {Null}) : v \in 1..MaxLeaf}
    \cup {ParamsFn(Obj([b |-> o])) : o \in InnerObjects(2)}

\* the paramsFromSelector of createFinalParams
MergeSelectorParams ==
    {Null} \cup UNION {ParamObjects(v, {Null, Handle("selectorApi")}) : v \in 1..MaxLeaf}

InitMerge ==
    /\ framework = "none"
    /\ pc = "idle"
    /\ \E paramsFromGrid \in MergeGridParams, userParams \in MergeUserParams,
          paramsFromSelector \in MergeSelectorParams :
         call = [Call("createFinalParams", Holder("cellRenderer", Null, Null, Null, userParams),
                      "cellRenderer", paramsFromGrid, Null, FALSE, Null)
                 EXCEPT !.paramsFromSelector = paramsFromSelector]
    /\ outcome = Outcome(FALSE, Null, Null)
    /\ events = << >>
    /\ initPromise = InitPromiseOf(Null, FALSE)
    /\ future = NoPromise
    /\ heap = NoHeap

\* createFinalParams(definitionObject, propertyName, paramsFromGrid, paramsFromSelector)
CreateFinalParams ==
    /\ pc = "idle"
    /\ call.op = "createFinalParams"
    /\ outcome' = Outcome(FALSE, createFinalParams(call.definitionObject, call.propertyName,
                                                   call.params, call.paramsFromSelector), Null)
    /\ pc' = "returned"
    /\ UNCHANGED <<framework, call, events, initPromise, future, heap>>

NextMerge == CreateFinalParams

SpecMerge == InitMerge /\ [][NextMerge]_vars

----------------------------------------------------------------------------
(* createFinalParams on objects held by address: what it allocates, what   *)
(* it writes to, and what its result shares with its inputs.               *)

\* how many times createFinalParams is called on the same inputs
MaxCalls == 2

\* a reference to the object at address addr of the heap
Ref(addr) == [t |-> "ref", addr |-> addr]

\* a P+"Params" function the user configured: it returns the object at ret, at every call
ParamsFnOnHeap(ret) == [t |-> "heapfn", ret |-> ret]

\* the keys of the params objects, in the order an iteration visits them
KeyOrder == <<"a", "b", "x", "y", "api">>

KeysOf(cell) == SelectSeq(KeyOrder, LAMBDA k : k \in DOMAIN cell)

\* cell[key] = value
SetCell(cell, key, value) ==
    [k \in DOMAIN cell \cup {key} |-> IF k = key THEN value ELSE cell[k]]

\* the heap with the object literal v (and the objects nested in it) added,
\* and the reference to it; a value that is no object is its own reference
RECURSIVE StoreKeys(_, _, _, _)
StoreKeys(cells, v, keys, cell) ==
    IF keys = << >> THEN [cells |-> Append(cells, cell), ref |-> Ref(Len(cells) + 1)]
    ELSE LET key == Head(keys)
         IN  IF v.o[key].t = "object"
             THEN LET nested == StoreKeys(cells, v.o[key], KeysOf(v.o[key].o), << >>)
                  IN  StoreKeys(nested.cells, v, Tail(keys), SetCell(cell, key, nested.ref))
             ELSE StoreKeys(cells, v, Tail(keys), SetCell(cell, key, v.o[key]))

Store(cells, v) ==
    IF v.t = "object" THEN StoreKeys(cells, v, KeysOf(v.o), << >>)
    ELSE [cells |-> cells, ref |-> v]

RECURSIVE mergeDeepOnHeap(_, _, _)

\* AssignObject storing the reference to the object of the source itself
AssignObjectByReference(cells, dest, key, newValue) ==
    [cells EXCEPT ![dest] = SetCell(@, key, newValue)]

\* dest[key] = newValue for an object newValue where dest has no object: a
\* deep merge hands on a copy of the source's object, never the object
AssignObject(cells, dest, key, newValue) ==
    LET copy == Len(cells) + 1
        copied == mergeDeepOnHeap(Append(cells, << >>), copy, newValue)
    IN  [copied EXCEPT ![dest] = SetCell(@, key, Ref(copy))]

\* mergeDeep, key by key: the object at source merged into the object at dest
RECURSIVE MergeKeysOnHeap(_, _, _, _)
MergeKeysOnHeap(cells, dest, source, keys) ==
    IF keys = << >> THEN cells
    ELSE LET key == Head(keys)
             newValue == cells[source][key]
             oldValue == IF key \in DOMAIN cells[dest] THEN cells[dest][key] ELSE Null
             merged == IF newValue.t = "ref" /\ oldValue.t = "ref"
                       THEN mergeDeepOnHeap(cells, oldValue.addr, newValue)
                       ELSE IF newValue.t = "ref"
                       THEN AssignObject(cells, dest, key, newValue)
                       ELSE [cells EXCEPT ![dest] = SetCell(@, key, newValue)]
         IN  MergeKeysOnHeap(merged, dest, source, Tail(keys))

\* _.mergeDeep(dest, source) as the heap it leaves: it writes to the object
\* at dest and to the objects nested in it, and only reads source
mergeDeepOnHeap(cells, dest, source) ==
    IF source.t # "ref" THEN cells
    ELSE MergeKeysOnHeap(cells, dest, source.addr, KeysOf(cells[source.addr]))

\* const res: any = {}: the address of the new object
FreshRes(cells, paramsFromGrid) == Len(cells) + 1

\* createFinalParams as the heap it leaves and the reference it returns
createFinalParamsOnHeap(cells, definitionObject, propertyName, paramsFromGrid, paramsFromSelector) ==
    LET res == FreshRes(cells, paramsFromGrid)
        allocated == IF res > Len(cells) THEN Append(cells, << >>) ELSE cells
        withGrid == mergeDeepOnHeap(allocated, res, paramsFromGrid)
        userParams == IF Truthy(definitionObject)
                      THEN Get(definitionObject, propertyName \o "Params") ELSE Null
        withUser == IF userParams.t = "heapfn" THEN mergeDeepOnHeap(withGrid, res, userParams.ret)
                    ELSE IF userParams.t = "ref" THEN mergeDeepOnHeap(withGrid, res, userParams)
                    ELSE withGrid
        withSelector == mergeDeepOnHeap(withUser, res, paramsFromSelector)
    IN  [cells |-> IF "api" \notin DOMAIN withSelector[res] \/ ~Truthy(withSelector[res]["api"])
                   THEN [withSelector EXCEPT ![res] = SetCell(@, "api", gridApi)]
                   ELSE withSelector,
         ref |-> Ref(res)]

\* the params objects of the heap specification
HeapParams == {Null} \cup ParamObjects(1, {Null, Handle("callerApi")})

\* the P+"Params" entries of the heap specification: nothing, an object, a function
HeapUserParams == {Null} \cup {[fn |-> f, ret |-> r] : f \in BOOLEAN, r \in ParamObjects(2, {Null})}

HeapSelectorParams == {Null} \cup ParamObjects(3, {Null})

InitHeap ==
    /\ framework = "none"
    /\ pc = "idle"
    /\ \E paramsFromGrid \in HeapParams, userParams \in HeapUserParams,
          paramsFromSelector \in HeapSelectorParams :
       \E grid \in {Store(<< >>, paramsFromGrid)} :
       \E user \in {IF userParams = Null THEN [cells |-> grid.cells, ref |-> Null]
                    ELSE Store(grid.cells, userParams.ret)} :
       \E selector \in {Store(user.cells, paramsFromSelector)} :
         /\ call = [Call("createFinalParamsOnHeap",
                         Holder("cellRenderer", Null, Null, Null,
                                IF userParams # Null /\ userParams.fn
                                THEN ParamsFnOnHeap(user.ref) ELSE user.ref),
                         "cellRenderer", grid.ref, Null, FALSE, Null)
                    EXCEPT !.paramsFromSelector = selector.ref]
         /\ heap = [cells |-> selector.cells, initial |-> selector.cells]
    /\ outcome = Outcome(FALSE, Null, Null)
    /\ events = << >>
    /\ initPromise = InitPromiseOf(Null, FALSE)
    /\ future = NoPromise

\* createFinalParams(definitionObject, propertyName, paramsFromGrid, paramsFromSelector),
\* called once more on the same inputs
CreateFinalParamsOnHeap ==
    /\ call.op = "createFinalParamsOnHeap"
    /\ Len(events) < MaxCalls
    /\ \E made \in {createFinalParamsOnHeap(heap.cells, call.definitionObject, call.propertyName,
                                            call.params, call.paramsFromSelector)} :
         /\ heap' = [heap EXCEPT !.cells = made.cells]
         /\ outcome' = Outcome(FALSE, made.ref, Null)
         /\ events' = Append(events, Ev("createFinalParams", Null, made.ref))
    /\ pc' = "returned"
    /\ UNCHANGED <<framework, call, initPromise, future>>

NextHeap == CreateFinalParamsOnHeap

SpecHeap == InitHeap /\ [][NextHeap]_vars

----------------------------------------------------------------------------
(* What the claims speak of: the configuration the call read, and what the *)
(* call did.                                                               *)

\* the call has returned (or thrown), and was a resolution
Resolved == pc = "returned" /\ call.op \in {"getComponentClassDef", "createUserComponent"}

\* the holder the call reads: createUserComponent reads gridOptions when given none
HolderRead ==
    IF call.op = "createUserComponent" /\ call.definitionObject = Null
    THEN gridOptions ELSE call.definitionObject

HeldValue == Entry(HolderRead, call.propertyName, "")

\* the holder names a component: a string that is not empty
HoldsName == HeldValue.t = "string" /\ HeldValue.s # ""

HoldsNativeInstance == HeldValue.t = "class"

HoldsNativeFunction == HeldValue.t = "function"

HoldsNative == HoldsName \/ HoldsNativeInstance \/ HoldsNativeFunction

HoldsFramework == Entry(HolderRead, call.propertyName, "Framework") # Null

HoldsSelector == Entry(HolderRead, call.propertyName, "Selector") # Null

HoldsHardcoded == HoldsNative \/ HoldsFramework

\* what the holder's selector returns
SelectorAnswer ==
    IF HoldsSelector THEN Entry(HolderRead, call.propertyName, "Selector").result ELSE Null

\* the name the registry is asked for: the first there is of the selector's
\* name, the hardcoded name and the default name; null when there is none
NameLookedUp ==
    IF SelectorAnswer # Null /\ Truthy(Get(SelectorAnswer, "component"))
    THEN Get(SelectorAnswer, "component")
    ELSE IF HoldsName THEN HeldValue
    ELSE IF Truthy(call.defaultComponentName) THEN call.defaultComponentName
    ELSE Null

\* the holder passes the validations and leaves the choice to a name
ResolvedByName ==
    /\ ~HoldsFramework /\ ~HoldsNativeInstance /\ ~HoldsNativeFunction
    /\ ~(HoldsSelector /\ HoldsName)

\* the call invoked e
Invoked(e) == \E i \in 1..Len(events) : events[i].e = e

\* how often the call invoked e
Count(e) == Cardinality({i \in 1..Len(events) : events[i].e = e})

\* no implementation was constructed or wrapped, no instance wired or initialised
NothingCreated ==
    /\ \A i \in 1..Len(events) : events[i].e \notin {"new", "wrap", "wireBean", "customInitParamsCb", "init"}
    /\ future = NoPromise
    /\ initPromise.status = "none"

----------------------------------------------------------------------------
(* The claims.                                                             *)

\* C1: when the holder carries a framework reference under P+"Framework"
\* and a hardcoded native form under P (a name, a class or a plain
\* function), getComponentClassDef and createUserComponent throw the error
\* "you are trying to specify P twice", naming P, and nothing is created:
\* nothing is constructed, wrapped, wired or initialised and the selector is
\* not invoked.
C1_ConflictingSpecification ==
    (Resolved /\ HoldsFramework /\ HoldsNative) =>
        /\ outcome.threw
        /\ outcome.error = Error("you are trying to specify twice as a component", call.propertyName)
        /\ events = << >>
        /\ NothingCreated

\* C1 happens: createUserComponent has thrown for a holder with a name and a
\* framework reference, in a grid where the framework wrapper is installed
C1_Witness ==
    /\ Resolved /\ call.op = "createUserComponent"
    /\ HoldsFramework /\ HoldsName /\ framework = "react"
    /\ outcome.threw

\* the resolution comes to a framework component: by a framework reference,
\* or by a name the registry binds to a framework component
YieldsFrameworkKind ==
    \/ HoldsFramework /\ ~HoldsNative
    \/ /\ ResolvedByName
       /\ NameLookedUp # Null
       /\ NameLookedUp.s \in BoundNames
       /\ userComponentRegistry[NameLookedUp.s].type = "FRAMEWORK"

\* C2: when the resolution comes to a framework component and no
\* frameworkComponentWrapper is installed, the call throws the error "you
\* are specifying a framework component but you are not using a framework
\* version", before anything is instantiated.
C2_MissingFrameworkAdapter ==
    (Resolved /\ YieldsFrameworkKind /\ ~Truthy(frameworkComponentWrapper)) =>
        /\ outcome.threw
        /\ outcome.error = Error("you are specifying a framework component but you are not using a framework version",
                                 call.propertyName)
        /\ NothingCreated

\* C3: when the holder carries a selector together with a hardcoded form
\* (a name, a class, a plain function or a framework reference), the call
\* throws an Error and the selector is not invoked; whenever the selector was
\* invoked, the holder carries a selector and no hardcoded form.
C3_SelectorExclusive ==
    /\ (Resolved /\ HoldsSelector /\ HoldsHardcoded) =>
            /\ outcome.threw
            /\ outcome.error.kind = "Error"
            /\ outcome.error.prop = call.propertyName
            /\ ~Invoked("selector")
            /\ future = NoPromise
    /\ (pc = "returned" /\ Invoked("selector")) => (HoldsSelector /\ ~HoldsHardcoded)

\* C3 happens: getComponentClassDef has thrown on a holder with a selector
\* and a name, which nothing else is wrong with
C3_Witness ==
    /\ Resolved /\ call.op = "getComponentClassDef"
    /\ HoldsSelector /\ HoldsName /\ ~HoldsFramework
    /\ outcome.threw

\* no component can be resolved: the choice is left to a name, and there is
\* no name or the name is not bound in the registry
Unresolvable ==
    /\ ResolvedByName
    /\ \/ NameLookedUp = Null
       \/ NameLookedUp.s \notin BoundNames

\* C4: when no component can be resolved, getComponentClassDef returns null
\* and throws nothing, and createUserComponent with mandatory = false
\* returns null, throws nothing and creates nothing.
C4_MissingIsNone ==
    (Resolved /\ Unresolvable /\ (call.op = "createUserComponent" => ~call.mandatory)) =>
        /\ ~outcome.threw
        /\ outcome.value = Null
        /\ NothingCreated

\* C5: when no component can be resolved and mandatory = true,
\* createUserComponent throws an Error for the missing component.
C5_MissingMandatoryThrows ==
    (Resolved /\ Unresolvable /\ call.op = "createUserComponent" /\ call.mandatory) =>
        /\ outcome.threw
        /\ outcome.error.kind = "Error"

\* createFinalParams has returned
Merged == pc = "returned" /\ call.op = "createFinalParams"

\* the three sources of the merge, from the lowest precedence to the
\* highest: the caller's params, the holder's P+"Params" entry (the result
\* of a function invoked with the caller's params, an object itself, nothing
\* for any other value) and the selector's params
MergeSource(i) ==
    LET userParams == Entry(call.definitionObject, call.propertyName, "Params")
    IN  CASE i = 1 -> call.params
          [] i = 2 -> IF userParams.t = "paramsfn" THEN Apply(userParams, call.params)
                      ELSE IF userParams.t = "object" THEN userParams
                      ELSE Null
          [] i = 3 -> call.paramsFromSelector

\* the value of an object at a key path of one or two keys; undefined when the path is not there
At(obj, path) ==
    IF obj.t # "object" THEN Null
    ELSE IF Len(path) = 1 THEN Get(obj, path[1])
    ELSE IF Get(obj, path[1]).t = "object" THEN Get(Get(obj, path[1]), path[2])
    ELSE Null

\* the keys of the params but for api, and the keys of the objects nested in them
MergeKeys == {"a", "b", "seen"}

NestedKeys == {"x", "y"}

KeyPaths == {<<k>> : k \in MergeKeys} \cup {<<k, j>> : k \in MergeKeys, j \in NestedKeys}

IsLeaf(v) == v # Null /\ v.t # "object"

\* source i is the one of the highest precedence that defines the path
HighestDefining(i, path) ==
    /\ At(MergeSource(i), path) # Null
    /\ \A j \in (i + 1)..3 : At(MergeSource(j), path) = Null

\* C6: createFinalParams merges the caller's params, the holder's
\* P+"Params" entry and the selector's params with rising precedence. Every
\* leaf of the result (but the api key) has the value of the
\* highest-precedence source that defines its key path; the result has a key
\* exactly when a source has it; where every source holding a key holds an
\* object under it, the result holds under it the keys of all of them; and
\* {a:1,b:{x:1}}, {b:{y:2}}, {a:3} give {a:3,b:{x:1,y:2}} with the api key.
C6_MergePrecedence ==
    Merged =>
        /\ \A path \in KeyPaths :
              IsLeaf(At(outcome.value, path)) =>
                  \E i \in 1..3 : /\ HighestDefining(i, path)
                                  /\ At(outcome.value, path) = At(MergeSource(i), path)
        /\ \A k \in MergeKeys :
              /\ At(outcome.value, <<k>>) # Null <=> \E i \in 1..3 : At(MergeSource(i), <<k>>) # Null
              /\ (\A i \in 1..3 : ~IsLeaf(At(MergeSource(i), <<k>>))) =>
                    \A j \in NestedKeys :
                        At(outcome.value, <<k, j>>) # Null
                            <=> \E i \in 1..3 : At(MergeSource(i), <<k, j>>) # Null
        /\ ( /\ MergeSource(1) = Obj([a |-> Num(1), b |-> Obj([x |-> Num(1)])])
             /\ MergeSource(2) = Obj([b |-> Obj([y |-> Num(2)])])
             /\ MergeSource(3) = Obj([a |-> Num(3)]) ) =>
                outcome.value = Obj([a |-> Num(3), b |-> Obj([x |-> Num(1), y |-> Num(2)]), api |-> gridApi])

\* C6 happens: the three sources overlap, two with nested objects under b
\* and two with a leaf under a, and createFinalParams has merged them
C6_Witness ==
    /\ Merged
    /\ MergeSource(1) = Obj([a |-> Num(1), b |-> Obj([x |-> Num(1)])])
    /\ MergeSource(2) = Obj([b |-> Obj([y |-> Num(2)])])
    /\ MergeSource(3) = Obj([a |-> Num(3)])
    /\ At(outcome.value, <<"b", "y">>) = Num(2)

\* createUserComponent has created an instance and gone on to initialise it
CreatedByFactory ==
    pc = "returned" /\ call.op = "createUserComponent" /\ Invoked("wireBean")

\* the instance the call created: the one it wired
TheInstance == events[CHOOSE i \in 1..Len(events) : events[i].e = "wireBean"].target

\* the params the holder's selector supplies
SelectorSupplied == IF SelectorAnswer # Null THEN Get(SelectorAnswer, "params") ELSE Null

\* what createFinalParams yields for the holder, P, the caller's params and the selector's params
MergedParams == createFinalParams(HolderRead, call.propertyName, call.params, SelectorSupplied)

\* the merged params with the keys agGridReact and frameworkComponentWrapper
\* set: to a clone of the agGridReact bean and to the wrapper bean, each
\* replaced by an empty object when the bean is not there
MergedParamsWithBeans ==
    [t |-> "object",
     o |-> [k \in DOMAIN MergedParams.o \cup {"agGridReact", "frameworkComponentWrapper"} |->
              CASE k = "agGridReact" ->
                      IF framework = "react" THEN Handle("cloneOfAgGridReact") ELSE EmptyObj
                [] k = "frameworkComponentWrapper" ->
                      IF framework = "none" THEN EmptyObj ELSE Handle("frameworkComponentWrapper")
                [] OTHER -> MergedParams.o[k]]]

\* the call is one C7 speaks of: createUserComponent was given a
\* customInitParamsCb and the instance it created has an init
WithCallbackAndInit ==
    /\ CreatedByFactory
    /\ call.customInitParamsCb # Null
    /\ InitKind(TheInstance) # "none"

\* the callback was invoked once, with params and the instance, and then
\* init once, with what the callback returns for them
CallbackThenInit(params) ==
    /\ Count("customInitParamsCb") = 1
    /\ Count("init") = 1
    /\ events[Len(events) - 1] = Ev("customInitParamsCb", TheInstance, params)
    /\ events[Len(events)] =
          Ev("init", TheInstance, ApplyCb(call.customInitParamsCb, params, TheInstance))
    /\ events[Len(events)].params # params
    /\ TheInstance.of = events[Len(events) - 3].target
    /\ events[Len(events) - 3].e \in {"new", "wrap"}

\* C7, as claimed: the callback is invoked exactly once, with exactly the
\* merged params createFinalParams yields and the new instance, and init
\* receives the callback's return value.
C7_CallbackGetsMergedParams == WithCallbackAndInit => CallbackThenInit(MergedParams)

\* C7, amended: the callback is invoked exactly once, with the new instance
\* and the merged params createFinalParams yields for the holder (gridOptions
\* when none is given) in which createUserComponent has set the keys
\* agGridReact and frameworkComponentWrapper; init is called once, with
\* the callback's return value and not with those params.
C7_CallbackGetsParamsWithBeans == WithCallbackAndInit => CallbackThenInit(MergedParamsWithBeans)

\* C7 happens: a callback was given, the holder has params of its own and a
\* selector that supplies params, and init has been called
C7_Witness ==
    /\ WithCallbackAndInit
    /\ SelectorSupplied # Null
    /\ Entry(HolderRead, call.propertyName, "Params") # Null
    /\ call.params # Null
    /\ Invoked("init")

\* the holder configures nothing for P (or true), and the default name is
\* bound in the registry to an entry of provenance DEFAULT
DefaultOnly ==
    /\ Resolved
    /\ HeldValue \in {Null, Bool(TRUE)}
    /\ ~HoldsFramework
    /\ ~HoldsSelector
    /\ Truthy(call.defaultComponentName)
    /\ call.defaultComponentName.s \in BoundNames
    /\ userComponentRegistry[call.defaultComponentName.s].source = "DEFAULT"

\* the implementation a registry entry stands for: its class, or the class adapted from its function
ImplementationOf(entry) ==
    IF entry.component.t = "function" THEN Adapted(entry.component.id) ELSE entry.component

C9_Precedence ==
    (pc = "returned" /\ call.op = "getComponentClassDef" /\ ~outcome.threw) =>
        IF HoldsFramework
        THEN outcome.value = [t |-> "classdef", type |-> "FRAMEWORK", source |-> "HARDCODED",
                              component |-> Entry(HolderRead, call.propertyName, "Framework"),
                              paramsFromSelector |-> Null]
        ELSE IF HoldsNativeInstance
        THEN outcome.value = [t |-> "classdef", type |-> "PLAIN_JAVASCRIPT", source |-> "HARDCODED",
                              component |-> HeldValue, paramsFromSelector |-> Null]
        ELSE IF HoldsNativeFunction
        THEN outcome.value = [t |-> "classdef", type |-> "PLAIN_JAVASCRIPT", source |-> "HARDCODED",
                              component |-> Adapted(HeldValue.id), paramsFromSelector |-> Null]
        ELSE IF NameLookedUp = Null
        THEN outcome.value = Null
        ELSE /\ NameLookedUp.s \in BoundNames
             /\ outcome.value # Null
             /\ outcome.value.component = ImplementationOf(userComponentRegistry[NameLookedUp.s])
             /\ outcome.value.type = userComponentRegistry[NameLookedUp.s].type
             /\ outcome.value.source \in {"DEFAULT", "REGISTERED_BY_NAME"}

\* C9 happens: the selector names one component, the default name another,
\* and getComponentClassDef has returned the selector's
C9_Witness ==
    /\ pc = "returned" /\ call.op = "getComponentClassDef" /\ ~outcome.threw
    /\ SelectorAnswer # Null
    /\ Get(SelectorAnswer, "component") = Str("myFormatter")
    /\ call.defaultComponentName = Str("agCellRenderer")
    /\ outcome.value.component = Adapted("myFormatter")

\* the Promise createUserComponent returned is resolved with the instance
ReadyWithInstance ==
    /\ ~outcome.threw
    /\ outcome.value = [t |-> "promise"]
    /\ future.status = "resolved"
    /\ future.value = TheInstance

\* an init that returned a Promise: the returned Promise is resolved exactly
\* when that one is, and then with the instance
ReadyWhenInitIs ==
    /\ ~outcome.threw
    /\ outcome.value = [t |-> "promise"]
    /\ future.status = IF initPromise.status = "resolved" THEN "resolved" ELSE "pending"
    /\ future.value = IF initPromise.status = "resolved" THEN TheInstance ELSE Null

InitFailed ==
    /\ CreatedByFactory
    /\ Invoked("init")
    /\ InitKind(TheInstance) = "throws"

\* C11: a failure of init is delivered by the Promise createUserComponent
\* returns and not as an exception of the call: the call returns a Promise,
\* that Promise is rejected and never resolved with the instance, and init
\* is not called a second time.
C11_InitFailureThroughFuture ==
    InitFailed =>
        /\ ~outcome.threw
        /\ outcome.value = [t |-> "promise"]
        /\ future.status = "rejected"
        /\ Count("init") = 1

\* the api the merge of the sources gives: that of the source of the highest
\* precedence that has the key; undefined when none has it
SuppliedApi ==
    IF \E i \in 1..3 : HighestDefining(i, <<"api">>)
    THEN At(MergeSource(CHOOSE i \in 1..3 : HighestDefining(i, <<"api">>)), <<"api">>)
    ELSE Null

\* C12, as claimed: the result of createFinalParams has the api key; when
\* no source has the key it holds gridOptions.api, and when a source has it,
\* whatever the value, it holds the merged value.
C12_ApiKeptWhateverValue ==
    Merged =>
        /\ Get(outcome.value, "api") # Null
        /\ Get(outcome.value, "api") = IF SuppliedApi = Null THEN gridApi ELSE SuppliedApi

\* C12, amended: the result of createFinalParams has the api key; it holds
\* the merged value when that value is truthy, and gridOptions.api when no
\* source has the key or the merged value is falsy.
C12_ApiKeptWhenTruthy ==
    Merged =>
        /\ Get(outcome.value, "api") # Null
        /\ Get(outcome.value, "api") = IF Truthy(SuppliedApi) THEN SuppliedApi ELSE gridApi

\* C12 happens: the caller's params have the api 0, no other source has the
\* key, and createFinalParams has put gridOptions.api in its place
C12_Witness ==
    /\ Merged
    /\ At(MergeSource(1), <<"api">>) = Num(0)
    /\ SuppliedApi = Num(0)
    /\ Get(outcome.value, "api") = gridApi

\* a creation operation has constructed or wrapped an implementation
InstanceCreated ==
    /\ pc = "returned"
    /\ call.op \in {"createUserComponent", "createUserComponentFromConcreteClass"}
    /\ (Invoked("new") \/ Invoked("wrap"))

\* where in the call the implementation was constructed or wrapped
CreatedAt == CHOOSE i \in 1..Len(events) : events[i].e \in {"new", "wrap"}

\* the instance that construction or wrapping gave
CreatedInstance ==
    Instance(events[CreatedAt].target, events[CreatedAt].e)

\* C13: in createUserComponent and createUserComponentFromConcreteClass the
\* one instance created is wired exactly once, right after its creation and
\* before customInitParamsCb and init are invoked; init is invoked at most
\* once, and on that instance; an instance without init is wired all the
\* same, and nothing is wired when nothing was created.
C13_WiredOnceBeforeInit ==
    /\ InstanceCreated =>
          /\ Count("new") + Count("wrap") = 1
          /\ Count("wireBean") = 1
          /\ CreatedAt < Len(events)
          /\ events[CreatedAt + 1] = Ev("wireBean", CreatedInstance, Null)
          /\ \A i \in 1..Len(events) :
                events[i].e \in {"customInitParamsCb", "init"} =>
                    /\ i > CreatedAt + 1
                    /\ events[i].target = CreatedInstance
          /\ Count("init") <= 1
          /\ Count("customInitParamsCb") <= Count("init")
          /\ Count("init") = 0 <=> InitKind(CreatedInstance) = "none"
    /\ (pc = "returned" /\ ~InstanceCreated) =>
          ~Invoked("wireBean") /\ ~Invoked("init") /\ ~Invoked("customInitParamsCb")

\* C13 happens: createUserComponentFromConcreteClass has constructed an
\* instance of a class without init, and wired it
C13_Witness ==
    /\ InstanceCreated
    /\ call.op = "createUserComponentFromConcreteClass"
    /\ InitKind(CreatedInstance) = "none"
    /\ Invoked("wireBean")
    /\ ~Invoked("init")

\* createFinalParams has been called on the heap
MergedOnHeap == call.op = "createFinalParamsOnHeap" /\ Len(events) > 0

\* the object literal held at a reference
RECURSIVE Deref(_, _)
Deref(cells, v) ==
    IF v.t = "ref" THEN Obj([k \in DOMAIN cells[v.addr] |-> Deref(cells, cells[v.addr][k])])
    ELSE v

\* the addresses of an object and of the objects nested in it
RECURSIVE Reach(_, _)
Reach(cells, v) ==
    IF v.t # "ref" THEN {}
    ELSE {v.addr} \cup UNION {Reach(cells, cells[v.addr][k]) : k \in DOMAIN cells[v.addr]}

\* the objects the caller handed in: all there were before the first call
InputAddresses == 1..Len(heap.initial)

\* the reference the i-th call returned
ResultOf(i) == events[i].params

\* the holder's P+"Params" entry as the object it stands for
UserParamsObject ==
    LET userParams == Entry(call.definitionObject, call.propertyName, "Params")
    IN  IF userParams.t = "heapfn" THEN userParams.ret ELSE userParams

\* C14: createFinalParams returns a new object at every call and writes to
\* none of its inputs: after any number of calls the caller's params, the
\* holder's P+"Params" object (or the object its function returns) and the
\* selector's params are as they were, nested objects included; no object
\* of a result, nested or not, is an object of an input or of the result of
\* another call; and every result holds the merge of the inputs.
C14_FreshResultInputsUntouched ==
    MergedOnHeap =>
        /\ \A a \in InputAddresses : heap.cells[a] = heap.initial[a]
        /\ \A i \in 1..Len(events) :
              /\ Reach(heap.cells, ResultOf(i)) \cap InputAddresses = {}
              /\ \A j \in 1..Len(events) :
                    i # j => Reach(heap.cells, ResultOf(i)) \cap Reach(heap.cells, ResultOf(j)) = {}
              /\ Deref(heap.cells, ResultOf(i)) =
                    createFinalParams(Holder("cellRenderer", Null, Null, Null,
                                             Deref(heap.initial, UserParamsObject)),
                                      "cellRenderer", Deref(heap.initial, call.params),
                                      Deref(heap.initial, call.paramsFromSelector))

\* C14 happens: createFinalParams was called twice on a caller's params and
\* a holder's params that both have a nested object under b, and on
\* selector's params with a nested object under b too
C14_Witness ==
    /\ MergedOnHeap
    /\ Len(events) = 2
    /\ \A source \in {call.params, UserParamsObject, call.paramsFromSelector} :
          /\ source.t = "ref"
          /\ "b" \in DOMAIN heap.cells[source.addr]
          /\ heap.cells[source.addr]["b"].t = "ref"
    /\ Cardinality(Reach(heap.cells, ResultOf(1))) = 2

\* a resolution was called with no holder
AbsentHolder == Resolved /\ call.definitionObject = Null

\* what getComponentClassDef gives for a holder and the other arguments of the call
ResolutionWith(holder) ==
    getComponentClassDef(holder, call.propertyName, call.params, call.defaultComponentName)

\* the call (a getComponentClassDef) ended as the resolution `got` does
ResolvedAs(got) ==
    /\ outcome = Outcome(got.threw, got.value, got.error)
    /\ events = SelectorEvents(got.selectorCalls)

\* the call (a createUserComponent) ended as it does for `holder`: the same
\* error or the same invocations, in the same order and with the same params
CreatedAs(holder) ==
    LET made == createComponentInstance(holder, call.propertyName, call.params,
                                        call.defaultComponentName, call.mandatory)
    IN  IF made.threw THEN outcome = Outcome(TRUE, Null, made.error) /\ events = made.events
        ELSE IF made.value = Null THEN outcome = Outcome(FALSE, Null, Null) /\ events = made.events
        ELSE events = made.events
                      \o initialiseComponent(
                            made.value.componentInstance,
                            WithBeans(createFinalParams(holder, call.propertyName, call.params,
                                                        made.value.paramsFromSelector)),
                            call.customInitParamsCb)

\* C15, as claimed: getComponentClassDef and createUserComponent called
\* with no holder end as the same call with gridOptions for the holder: the
\* same descriptor, the same validation errors, the same merged params.
C15_AbsentHolderFallsBack ==
    AbsentHolder =>
        /\ call.op = "getComponentClassDef" => ResolvedAs(ResolutionWith(gridOptions))
        /\ call.op = "createUserComponent" => CreatedAs(gridOptions)

\* C15, amended: createUserComponent called with no holder ends as the same
\* call with gridOptions for the holder; getComponentClassDef called with
\* no holder does not read gridOptions: it ends as for a holder that
\* configures nothing, without any validation error and without a selector.
C15_OnlyCreationFallsBack ==
    AbsentHolder =>
        /\ call.op = "createUserComponent" => CreatedAs(gridOptions)
        /\ call.op = "getComponentClassDef" =>
              /\ ResolvedAs(ResolutionWith(EmptyObj))
              /\ events = << >>
              /\ outcome.threw => outcome.error.kind = "TypeError"

\* C15 happens: createUserComponent was called with no holder, and it has
\* created the cellRenderer gridOptions names and handed it the params of
\* gridOptions, not the default cellRenderer
C15_Witness ==
    /\ AbsentHolder /\ call.op = "createUserComponent"
    /\ call.propertyName = "cellRenderer"
    /\ call.defaultComponentName = Str("agCellRenderer")
    /\ Invoked("init")
    /\ TheInstance.of = userComponentRegistry["myRenderer"].component
    /\ At(events[Len(events)].params, <<"b", "y">>) = Num(2)

\* the call threw one of the three validation errors of getComponentClassDef
ValidationError ==
    /\ outcome.threw
    /\ outcome.error \in
          {Error(msg, call.propertyName) :
              msg \in {"you are trying to specify twice as a component",
                       "you are specifying a framework component but you are not using a framework version",
                       "you can't specify both, the selector and the component"}}

\* the params the instance is initialised with by the factory: those handed
\* to customInitParamsCb when there is one, else those handed to init
ParamsForInit ==
    events[CHOOSE i \in 1..Len(events) :
              /\ events[i].e \in {"customInitParamsCb", "init"}
              /\ \A j \in 1..(i - 1) : events[j].e \notin {"customInitParamsCb", "init"}].params

\* C16: in one createUserComponent call the selector is invoked at most
\* once, first of all invocations, with the caller's params, and never when
\* a validation failed; the params it supplies are the paramsFromSelector
\* of the descriptor and win over the caller's and the holder's params in
\* the params the instance is initialised with, whether the selector names
\* a component or leaves it to the default name; a descriptor of a
\* hardcoded form has paramsFromSelector null.
C16_SelectorOnceAfterValidation ==
    /\ (pc = "returned" /\ call.op = "createUserComponent") =>
          /\ Count("selector") <= 1
          /\ ValidationError => events = << >>
          /\ Invoked("selector") =>
                /\ HoldsSelector /\ ~HoldsHardcoded
                /\ events[1] = Ev("selector", Null, call.params)
          /\ (HoldsSelector /\ ~ValidationError) => Invoked("selector")
          /\ (Invoked("init") /\ SelectorSupplied # Null) =>
                /\ Invoked("selector")
                /\ \A k \in DOMAIN SelectorSupplied.o :
                      At(ParamsForInit, <<k>>) = SelectorSupplied.o[k]
          /\ (Invoked("init") /\ SelectorSupplied = Null) =>
                ParamsForInit = WithBeans(createFinalParams(HolderRead, call.propertyName,
                                                            call.params, Null))
    /\ (pc = "returned" /\ call.op = "getComponentClassDef" /\ ~outcome.threw /\ outcome.value # Null) =>
          /\ outcome.value.paramsFromSelector = SelectorSupplied
          /\ HoldsHardcoded => outcome.value.paramsFromSelector = Null
          /\ Count("selector") = IF HoldsSelector THEN 1 ELSE 0

\* C16 happens: the selector supplies params and names no component, the
\* default name is used, the caller and the holder have a value for the same
\* key, and init has got the selector's
C16_Witness ==
    /\ pc = "returned" /\ call.op = "createUserComponent"
    /\ Count("selector") = 1
    /\ SelectorAnswer # Null
    /\ ~Truthy(Get(SelectorAnswer, "component"))
    /\ SelectorSupplied = SelectorParams
    /\ At(call.params, <<"a">>) = Num(1)
    /\ Entry(HolderRead, call.propertyName, "Params") = ParamsFn(Obj([a |-> Num(2)]))
    /\ call.defaultComponentName = Str("agCellRenderer")
    /\ Invoked("init")
    /\ At(ParamsForInit, <<"a">>) = Num(3)

====
